---- MODULE Spec2Model ----
(***************************************************************************)
(* Model of the reveal.js deck scaffolding scripts:                        *)
(*   create-presentation.js  (generateSlides, cleanTemplateHTML,           *)
(*                            parseArgs, main, extractTemplate)            *)
(*   finalize.js             (the four finalize steps)                     *)
(***************************************************************************)
EXTENDS Integers, Sequences, FiniteSets, TLC

(***************************************************************************)
(* Bounds of the model.                                                    *)
(***************************************************************************)
MaxLen == 4        \* longest LayoutDescriptor drawn
MaxStack == 3      \* largest stack size drawn
MaxRenders == 2    \* how often the same descriptor is rendered
MaxTokLen == 2     \* longest --structure token drawn, in characters
MaxTokens == 1     \* most tokens in a --structure argument
MaxTitleLen == 2   \* longest --title drawn, in characters

(***************************************************************************)
(* Structure items.  JavaScript mixes the string 'd', numbers and NaN in   *)
(* one array; here every item is a record so that they can be compared.    *)
(***************************************************************************)
D == [k |-> "d", n |-> 0]
NaN == [k |-> "nan", n |-> 0]
Num(n) == [k |-> "int", n |-> n]

SeqsUpTo(S, n) == UNION {[1..m -> S] : m \in 0..n}

\* the valid LayoutDescriptors: 'd', 1, or an integer > 1
ValidItems == {D} \cup {Num(n) : n \in 1..MaxStack}
ValidStructures == SeqsUpTo(ValidItems, MaxLen) \ {<<>>}

(***************************************************************************)
(* Template-literal formatting of a non-negative number: `${n}`.           *)
(***************************************************************************)
DigitStr == <<"0", "1", "2", "3", "4", "5", "6", "7", "8", "9">>

RECURSIVE Digits(_)
Digits(n) == IF n < 10 THEN <<DigitStr[n + 1]>>
             ELSE Digits(n \div 10) \o <<DigitStr[(n % 10) + 1]>>

(***************************************************************************)
(* Markup lines emitted by generateSlides.  A line is an opening section   *)
(* tag (with its id and class), a heading, or a closing section tag.       *)
(***************************************************************************)
NoId == <<>>
OpenTag(id, cls) == [t |-> "open", id |-> id, cls |-> cls]
Heading == [t |-> "h", id |-> NoId, cls |-> ""]
CloseTag == [t |-> "close", id |-> NoId, cls |-> ""]

DividerId(dividerCount) == <<"divider-">> \o Digits(dividerCount)
TitleId == <<"title">>
SlideId(hIndex) == <<"slide-">> \o Digits(hIndex)

SlideIdVNoV(hIndex, vIndex) == <<"slide-">> \o Digits(hIndex)
SlideIdV(hIndex, vIndex) == <<"slide-">> \o Digits(hIndex) \o <<"-">> \o Digits(vIndex)

\* lines 92-94
EmitDividerAsSlide(dividerCount) ==
  << OpenTag(SlideId(dividerCount), ""), Heading, CloseTag >>
EmitDivider(dividerCount) ==
  << OpenTag(DividerId(dividerCount), "section-divider"), Heading, CloseTag >>

\* lines 99-107
EmitSingle(hIndex) ==
  IF hIndex = 1
  THEN << OpenTag(TitleId, "section-divider"), Heading, CloseTag >>
  ELSE << OpenTag(SlideId(hIndex), ""), Heading, CloseTag >>

\* lines 112-116: the inner loop, vIndex = from .. item
RECURSIVE EmitInner(_, _, _)
EmitInner(item, hIndex, vIndex) ==
  IF vIndex <= item
  THEN << OpenTag(SlideIdV(hIndex, vIndex), ""), Heading, CloseTag >>
         \o EmitInner(item, hIndex, vIndex + 1)
  ELSE << >>

\* lines 111-117
EmitStackShort(item, hIndex) ==
  << OpenTag(NoId, "") >> \o EmitInner(item - 1, hIndex, 1) \o << CloseTag >>
EmitStack(item, hIndex) ==
  << OpenTag(NoId, "") >> \o EmitInner(item, hIndex, 1) \o << CloseTag >>

\* line 96: hIndex++ after a divider
HAfterDividerSame(hIndex) == hIndex
HAfterDivider(hIndex) == hIndex + 1

\* lines 87-120: the loop over the structure
RECURSIVE GenLoop(_, _, _, _, _)
GenLoop(structure, colIndex, hIndex, dividerCount, slides) ==
  IF colIndex > Len(structure) THEN slides
  ELSE LET item == structure[colIndex] IN
    IF item = D
    THEN GenLoop(structure, colIndex + 1, HAfterDivider(hIndex), dividerCount + 1,
                 slides \o EmitDivider(dividerCount))
    ELSE IF item = Num(1)
    THEN GenLoop(structure, colIndex + 1, hIndex + 1, dividerCount,
                 slides \o EmitSingle(hIndex))
    ELSE GenLoop(structure, colIndex + 1, hIndex + 1, dividerCount,
                 slides \o EmitStack(item.n, hIndex))

generateSlides(structure) == GenLoop(structure, 1, 1, 1, << >>)

\* line 154: structure.reduce((a, b) => a + (b === 'd' ? 1 : b), 0)
ReduceStepDividerZero(a, b) == a + (IF b = D THEN 0 ELSE b.n)
ReduceStep(a, b) == a + (IF b = D THEN 1 ELSE b.n)

RECURSIVE Reduce(_, _, _)
Reduce(structure, i, a) ==
  IF i > Len(structure) THEN a
  ELSE Reduce(structure, i + 1, ReduceStep(a, structure[i]))

SlideCountOf(structure) == Reduce(structure, 1, 0)

(***************************************************************************)
(* Reading the markup back, as the browser or cheerio would.               *)
(***************************************************************************)
IsTag(l) == l.t \in {"open", "close"}

\* the first tag after position i
NextTagAt(s, i) ==
  LET later == {j \in DOMAIN s : j > i /\ IsTag(s[j])}
  IN  IF later = {} THEN 0 ELSE CHOOSE j \in later : \A m \in later : j <= m

\* a leaf slide: a section that contains no nested section
IsLeaf(s, i) == /\ s[i].t = "open"
                /\ NextTagAt(s, i) # 0
                /\ s[NextTagAt(s, i)].t = "close"

Leaves(s) == {i \in DOMAIN s : IsLeaf(s, i)}
LeafCount(s) == Cardinality(Leaves(s))

IsTitleStyled(l) == l.t = "open" /\ l.id = TitleId /\ l.cls = "section-divider"

(***************************************************************************)
(* Command line of create-presentation.js.  A token is a sequence of       *)
(* characters; parseInt(token, 10) is computed as JavaScript computes it.  *)
(***************************************************************************)
Chars == {"d", "0", "3", "x", ".", "-"}
DigitChars == {"0", "1", "2", "3", "4", "5", "6", "7", "8", "9"}
DigitVal(c) == CHOOSE v \in 0..9 : DigitStr[v + 1] = c

Tokens == SeqsUpTo(Chars, MaxTokLen)
\* "a,b,...".split(',') always yields at least one token
TokenLists == SeqsUpTo(Tokens, MaxTokens) \ {<<>>}

Absent == [given |-> FALSE, v |-> <<>>]
Given(v) == [given |-> TRUE, v |-> v]

\* the longest prefix of decimal digits of tok, from position i, as a number
RECURSIVE DigitPrefix(_, _, _)
DigitPrefix(tok, i, acc) ==
  IF i <= Len(tok) /\ tok[i] \in DigitChars
  THEN DigitPrefix(tok, i + 1, [seen |-> TRUE, val |-> acc.val * 10 + DigitVal(tok[i])])
  ELSE acc

\* parseInt(tok, 10): optional sign, then digits as far as they go; whatever
\* follows the digits is ignored; NaN when there is no digit
ParseInt(tok) ==
  LET neg == Len(tok) >= 1 /\ tok[1] = "-"
      p == DigitPrefix(tok, IF neg THEN 2 ELSE 1, [seen |-> FALSE, val |-> 0])
  IN  IF ~p.seen THEN NaN
      ELSE Num(IF neg THEN 0 - p.val ELSE p.val)

\* line 193: n => n === 'd' ? 'd' : parseInt(n, 10)
ParseToken(tok) == IF tok = <<"d">> THEN D ELSE ParseInt(tok)

\* line 256: n !== 'd' && (n < 1 || isNaN(n))
BadItem(n) == n # D /\ ((n.k = "int" /\ n.n < 1) \/ n.k = "nan")

\* line 249: options.slides < 1 || isNaN(options.slides)
BadSlides(n) == (n.k = "int" /\ n.n < 1) \/ n.k = "nan"

NullItem == [k |-> "null", n |-> 0]

SlidesArgs == {Absent, Given(<<"3">>), Given(<<"0">>), Given(<<"x">>)}

(***************************************************************************)
(* File system seen by extractTemplate.                                    *)
(***************************************************************************)
Runs == {1, 2}
Slugs == {"a", "b"}
Times == {1, 2}              \* values of Date.now()
NoTime == 0

\* top-level entries a template archive may hold
IndexEntry == "index.html"
LibEntry == "lib"
ArchiveEntries == {IndexEntry, LibEntry, "deck-c2bbd4", "README.md"}
Template == {IndexEntry, LibEntry, "deck-c2bbd4"}

\* content of a file or directory: which run's extraction it comes from and
\* whether main has written the customized markup over it; by = 0: absent
None == [by |-> 0, custom |-> FALSE]
From(r) == [by |-> r, custom |-> FALSE]

NoDeck == [exists |-> FALSE, index |-> None, lib |-> None]
NoScratch == [exists |-> FALSE, entries |-> [e \in ArchiveEntries |-> None]]

(***************************************************************************)
(* The deck directory seen by finalize.js.                                 *)
(***************************************************************************)
MaxLinks == 2      \* link tags in index.html besides the template's own
MaxRuns == 2       \* runs of finalize.js in succession

\* entries of the deck root whose name ends in .css
LooseNames == {"a.css", "b.css", "offline-v2.css"}
Missing == "<missing>"
LooseContent(n) ==
  CASE n = "a.css" -> "body{color:red}"
    [] n = "b.css" -> "h1{color:blue}"
    [] OTHER -> "p{margin:0}"

\* text of a stylesheet, piece by piece
Piece(t, v) == [t |-> t, v |-> v]
BaseCss == Piece("base", "")
Banner == Piece("banner", "/* === Custom Styles === */")
Origin(n) == Piece("origin", n)
Body(c) == Piece("body", c)

NoCanon == [exists |-> FALSE, content |-> << >>]
TemplateCanon == [exists |-> TRUE, content |-> << BaseCss >>]

\* a <link> tag of index.html: what its href names and how it is quoted
CanonHref == "lib/offline-v2.css"
Link(href, quote) == [href |-> href, quote |-> quote]
TemplateLink == Link(CanonHref, "dq")
ExtraLinks == {Link(h, q) : h \in {"a.css", "b.css"}, q \in {"dq", "sq"}}
                \cup {Link("vendor/lib/offline-v2.css", "dq")}

NoHtml == [exists |-> FALSE, links |-> << >>, writes |-> 0]

ArtifactNames == {"screenshots", "output.pdf"}
\* line 108
artifacts == << "screenshots", "output.pdf" >>
Kinds == {"absent", "file", "dir"}

NoStart == [loose |-> [n \in LooseNames |-> Missing], canon |-> NoCanon, html |-> NoHtml]

Perms(S) == {f \in [1..Cardinality(S) -> S] : \A i, j \in 1..Cardinality(S) : f[i] = f[j] => i = j}

(***************************************************************************)
(* State.                                                                  *)
(***************************************************************************)
VARIABLES
  structure,    \* options.structure
  slides,       \* the markup inside .slides
  slideCount,   \* config.deck.slide_count
  firstSlides,  \* the markup of the first rendering
  renders,      \* number of renderings done
  optTitle,     \* options.title
  cfg,          \* the var SLConfig = {...}; text of the markup
  firstCfg,     \* cfg after the first rendering
  prevCfg,      \* cfg and slide_count before the last rendering
  lastPath,     \* the branch the last cleanTemplateHTML took for SLConfig
  argSlides,    \* the --slides argument, if given
  argStructure, \* the --structure argument split at ',', if given
  optSlides,    \* options.slides
  structureSet, \* options.structure !== null
  pcM,          \* where main is
  zipExists,    \* the template archive is at TEMPLATE_ZIP_PATH
  outDirExists, \* options.outputDir exists
  outDirMade,   \* this run has created options.outputDir
  archive,      \* top-level entries of the template archive
  slug,         \* slug of each run
  xpc,          \* where each run of extractTemplate is
  scratchOf,    \* Date.now() of each run's tempExtractPath
  deck,         \* deck-<slug> directories under outputDir
  scratch,      \* temp-extract-<t> directories under outputDir
  seen,         \* what each run's existence check saw
  discardErr,   \* whether each run's removal of the scratch entries threw
  pcF,          \* where finalize.js is
  run,          \* which run of finalize.js this is
  assets,       \* the assets entry of the deck
  canon,        \* lib/offline-v2.css
  loose,        \* content of the *.css entries of the deck root
  html,         \* index.html: its link tags and how often it was written
  arts,         \* the screenshots and output.pdf entries
  cssFiles,     \* the cssFiles array of step 2
  customCss,    \* the customCss string of step 2
  rmIdx,        \* position of the cssFiles.forEach that unlinks
  artIdx,       \* position of artifacts.forEach
  report,       \* outcomes printed so far in this run
  fault,        \* a file-system call of this run has thrown an I/O error
  start0        \* the deck as the current run found it

cvars == <<structure, slides, slideCount, firstSlides, renders,
          optTitle, cfg, firstCfg, prevCfg, lastPath>>
mvars == <<argSlides, argStructure, optSlides, structureSet, pcM, zipExists, outDirExists, outDirMade>>
xvars == <<archive, slug, xpc, scratchOf, deck, scratch, seen, discardErr>>

diskvars == <<assets, canon, loose, html, arts>>
fvars == <<pcF, run, diskvars, cssFiles, customCss, rmIdx, artIdx, report, fault, start0>>

vars == <<cvars, mvars, xvars, fvars>>

(***************************************************************************)
(* The embedded configuration, var SLConfig = {...};, as text.  The slug   *)
(* and title fields hold the characters between their quotes, as written   *)
(* in the file (a quote inside a value is written \").                      *)
(***************************************************************************)
Quote == "\""
Backslash == "\\"
TitleChars == {"Q", "$", Quote, "}", ";"}
Titles == SeqsUpTo(TitleChars, MaxTitleLen)
DefaultTitle == << "P" >>

\* found:   a script holds 'SLConfig' and the pattern of line 148 matches
\* strict:  the payload is written in strict JSON
\* compact: the fields are written "key":"value", without white space
\* junk:    text left between the title field and the next field
TemplateCfg ==
  [found |-> TRUE, strict |-> TRUE, compact |-> TRUE,
   slug |-> << "deck-", "c2bbd4" >>, title |-> << "O" >>, junk |-> << >>]

\* JSON.stringify of a string, and line 168 .replace(/"/g, '\\"')
RECURSIVE Escape(_)
Escape(str) ==
  IF str = << >> THEN << >>
  ELSE (IF Head(str) = Quote THEN << Backslash, Quote >> ELSE << Head(str) >>)
         \o Escape(Tail(str))

\* JSON.parse of the text of a string
RECURSIVE Unescape(_)
Unescape(raw) ==
  IF raw = << >> THEN << >>
  ELSE IF Head(raw) = Backslash /\ Len(raw) >= 2
       THEN << raw[2] >> \o Unescape(Tail(Tail(raw)))
       ELSE << Head(raw) >> \o Unescape(Tail(raw))

\* String.prototype.replace(pattern, replacement) with a string as
\* replacement: $$ in the replacement inserts one $
RECURSIVE Expand(_)
Expand(rep) ==
  IF rep = << >> THEN << >>
  ELSE IF Head(rep) = "$" /\ Len(rep) >= 2 /\ rep[2] = "$"
       THEN << "$" >> \o Expand(Tail(Tail(rep)))
       ELSE << Head(rep) >> \o Expand(Tail(rep))


\* lines 148 and 158: {[\s\S]*?}; is lazy and ends at the first "};"
HasCloser(txt) == \E i \in 1..(Len(txt) - 1) : txt[i] = "}" /\ txt[i + 1] = ";"

\* line 151: JSON.parse(configMatch[1]) returns
Parsable(c) ==
  /\ c.strict
  /\ c.junk = << >>
  /\ ~HasCloser(c.slug)
  /\ ~HasCloser(c.title)

\* lines 146-172: which branch is taken
ConfigPath ==
  IF ~cfg.found THEN "nomatch"
  ELSE IF Parsable(cfg) THEN "parsed"
  ELSE "fallback"

DeckSlug == << "deck-", slug[1] >>

\* lines 151-163: fields set, JSON.stringify(config, null, 2), replace
ParsedCfg ==
  [found |-> TRUE, strict |-> TRUE, compact |-> FALSE,
   slug |-> Expand(Escape(DeckSlug)),
   title |-> Expand(Escape(optTitle)),
   junk |-> << >>]

\* position of the first quote character in txt, Len(txt) + 1 if none
FirstQuote(txt) ==
  LET qs == {i \in DOMAIN txt : txt[i] = Quote}
  IN  IF qs = {} THEN Len(txt) + 1 ELSE CHOOSE i \in qs : \A j \in qs : i <= j

\* lines 166-168: /"slug":"[^"]*"/ and /"title":"[^"]*"/ match the compact
\* form only, and [^"]*" stops at the first quote character of the old value
FallbackCfg ==
  IF ~cfg.compact THEN cfg
  ELSE LET k == FirstQuote(cfg.title) IN
       [cfg EXCEPT
          !.slug = Expand(DeckSlug),
          !.title = Expand(Escape(optTitle)),
          !.junk = IF k <= Len(cfg.title)
                   THEN SubSeq(cfg.title, k + 1, Len(cfg.title)) \o << Quote >> \o cfg.junk
                   ELSE cfg.junk]

(***************************************************************************)

NoSeen == [after |-> FALSE, deck |-> [s \in Slugs |-> NoDeck]]

IdleMain ==
  /\ argSlides = Absent
  /\ argStructure = Absent
  /\ optSlides = NullItem
  /\ structureSet = TRUE
  /\ zipExists = TRUE
  /\ outDirExists = TRUE
  /\ outDirMade = FALSE

IdleExtract ==
  /\ archive = Template
  /\ slug = [r \in Runs |-> "a"]
  /\ xpc = [r \in Runs |-> "idle"]
  /\ scratchOf = [r \in Runs |-> NoTime]
  /\ deck = [s \in Slugs |-> NoDeck]
  /\ scratch = [t \in Times |-> NoScratch]
  /\ seen = [r \in Runs |-> NoSeen]
  /\ discardErr = [r \in Runs |-> FALSE]

IdleFinalize ==
  /\ pcF = "idle"
  /\ run = 0
  /\ assets = "absent"
  /\ canon = NoCanon
  /\ loose = [n \in LooseNames |-> Missing]
  /\ html = NoHtml
  /\ arts = [a \in ArtifactNames |-> "absent"]
  /\ cssFiles = << >>
  /\ customCss = << >>
  /\ rmIdx = 0
  /\ artIdx = 0
  /\ report = {}
  /\ fault = FALSE
  /\ start0 = NoStart

\* nothing rendered yet, the markup is the template's
Unrendered ==
  /\ slides = << >>
  /\ firstSlides = << >>
  /\ renders = 0
  /\ firstCfg = cfg
  /\ prevCfg = [cfg |-> cfg, count |-> slideCount]
  /\ lastPath = "none"

IdleCompile ==
  /\ structure = << >>
  /\ slideCount = 0
  /\ optTitle = DefaultTitle
  /\ cfg = TemplateCfg
  /\ Unrendered

(* The compiler on its own: cleanTemplateHTML applied to a validated       *)
(* descriptor, possibly more than once.                                    *)
(***************************************************************************)
InitCompile ==
  /\ structure \in ValidStructures
  /\ slideCount = 0
  /\ optTitle = DefaultTitle
  /\ cfg = TemplateCfg
  /\ Unrendered
  /\ pcM = "render"
  /\ IdleMain
  /\ IdleExtract
  /\ IdleFinalize

\* cleanTemplateHTML, lines 132-136 and 154: empty .slides, append the
\* generated slides, recompute slide_count
CustomizeBody ==
  /\ renders < MaxRenders
  /\ slides' = generateSlides(structure)
  /\ firstSlides' = IF renders = 0 THEN generateSlides(structure) ELSE firstSlides
  /\ renders' = renders + 1
  /\ lastPath' = ConfigPath
  /\ cfg' = CASE ConfigPath = "parsed" -> ParsedCfg
               [] ConfigPath = "fallback" -> FallbackCfg
               [] OTHER -> cfg
  /\ slideCount' = IF ConfigPath = "parsed" THEN SlideCountOf(structure) ELSE slideCount
  /\ firstCfg' = IF renders = 0 THEN cfg' ELSE firstCfg
  /\ prevCfg' = [cfg |-> cfg, count |-> slideCount]
  /\ UNCHANGED <<structure, optTitle>>

Customize ==
  /\ pcM = "render"
  /\ CustomizeBody
  /\ UNCHANGED <<mvars, xvars, fvars>>

NextCompile == Customize

SpecCompile == InitCompile /\ [][NextCompile]_vars

(***************************************************************************)
(* cleanTemplateHTML applied to markups with differing SLConfig text, with *)
(* differing titles, once and again on its own output.                     *)
(***************************************************************************)
SampleStructures == { << Num(1) >>, << Num(1), D, Num(3), Num(1) >> }
PrevTitles == { << "O" >>, << "O", Backslash, Quote, "K" >> }
PrevCounts == {0, 7}

InitCustomize ==
  /\ structure \in SampleStructures
  /\ slideCount \in PrevCounts
  /\ optTitle \in Titles
  /\ cfg \in {[TemplateCfg EXCEPT !.found = FALSE]} \cup
             {[TemplateCfg EXCEPT !.strict = st, !.compact = cp, !.title = t] :
                st \in BOOLEAN, cp \in BOOLEAN, t \in PrevTitles}
  /\ Unrendered
  /\ pcM = "render"
  /\ IdleMain
  /\ IdleExtract
  /\ IdleFinalize

SpecCustomize == InitCustomize /\ [][NextCompile]_vars

(***************************************************************************)
(* extractTemplate(slug, outputDir), one action per file-system call, so   *)
(* that two runs of the script can interleave.                             *)
(***************************************************************************)
Other(r) == CHOOSE o \in Runs : o # r

\* line 30: fs.existsSync(deckPath)
DeckExistsNever(r) == FALSE
DeckExists(r) == deck[slug[r]].exists

\* lines 30-32: the directory-must-not-exist check
Check(r) ==
  /\ xpc[r] = "check"
  /\ seen' = [seen EXCEPT ![r] =
               [after |-> xpc[Other(r)] = "done" /\ slug[Other(r)] = slug[r],
                deck |-> deck]]
  /\ xpc' = [xpc EXCEPT ![r] = IF DeckExists(r) THEN "conflict" ELSE "extract"]
  /\ UNCHANGED <<archive, slug, scratchOf, deck, scratch, discardErr>>
  /\ UNCHANGED <<cvars, mvars, fvars>>

\* lines 35-37: tempExtractPath from Date.now(), zip.extractAllTo(path, true)
Extract(r) ==
  /\ xpc[r] = "extract"
  /\ \E t \in Times :
       /\ scratchOf' = [scratchOf EXCEPT ![r] = t]
       /\ scratch' = [scratch EXCEPT ![t] =
            [exists |-> TRUE,
             entries |-> [e \in ArchiveEntries |->
                            IF e \in archive THEN From(r) ELSE scratch[t].entries[e]]]]
  /\ xpc' = [xpc EXCEPT ![r] = "mkdir"]
  /\ UNCHANGED <<archive, slug, deck, seen, discardErr>>
  /\ UNCHANGED <<cvars, mvars, fvars>>

\* line 41: fs.mkdirSync(deckPath, { recursive: true }) does not fail when
\* the directory is already there
Mkdir(r) ==
  /\ xpc[r] = "mkdir"
  /\ deck' = [deck EXCEPT ![slug[r]].exists = TRUE]
  /\ xpc' = [xpc EXCEPT ![r] = "existsIndex"]
  /\ UNCHANGED <<archive, slug, scratchOf, scratch, seen, discardErr>>
  /\ UNCHANGED <<cvars, mvars, fvars>>

InScratch(r, e) ==
  /\ scratch[scratchOf[r]].exists
  /\ scratch[scratchOf[r]].entries[e] # None

\* line 44: fs.existsSync(path.join(tempExtractPath, 'index.html'))
ExistsIndex(r) ==
  /\ xpc[r] = "existsIndex"
  /\ xpc' = [xpc EXCEPT ![r] = IF InScratch(r, IndexEntry) THEN "mvIndex" ELSE "existsLib"]
  /\ UNCHANGED <<archive, slug, scratchOf, deck, scratch, seen, discardErr>>
  /\ UNCHANGED <<cvars, mvars, fvars>>

\* lines 45-48: renameSync of a file replaces a file at the target; it
\* throws ENOENT when the source is gone
MvIndex(r) ==
  /\ xpc[r] = "mvIndex"
  /\ IF InScratch(r, IndexEntry)
     THEN /\ deck' = [deck EXCEPT ![slug[r]].index = scratch[scratchOf[r]].entries[IndexEntry]]
          /\ scratch' = [scratch EXCEPT ![scratchOf[r]].entries[IndexEntry] = None]
          /\ xpc' = [xpc EXCEPT ![r] = "existsLib"]
     ELSE /\ xpc' = [xpc EXCEPT ![r] = "error"]
          /\ UNCHANGED <<deck, scratch>>
  /\ UNCHANGED <<archive, slug, scratchOf, seen, discardErr>>
  /\ UNCHANGED <<cvars, mvars, fvars>>

\* line 52: fs.existsSync(path.join(tempExtractPath, 'lib'))
ExistsLib(r) ==
  /\ xpc[r] = "existsLib"
  /\ xpc' = [xpc EXCEPT ![r] = IF InScratch(r, LibEntry) THEN "mvLib" ELSE "cleanup"]
  /\ UNCHANGED <<archive, slug, scratchOf, deck, scratch, seen, discardErr>>
  /\ UNCHANGED <<cvars, mvars, fvars>>

\* lines 53-56: renameSync of a directory throws ENOENT when the source is
\* gone and ENOTEMPTY when the target is a directory with content
MvLib(r) ==
  /\ xpc[r] = "mvLib"
  /\ IF InScratch(r, LibEntry) /\ deck[slug[r]].lib = None
     THEN /\ deck' = [deck EXCEPT ![slug[r]].lib = scratch[scratchOf[r]].entries[LibEntry]]
          /\ scratch' = [scratch EXCEPT ![scratchOf[r]].entries[LibEntry] = None]
          /\ xpc' = [xpc EXCEPT ![r] = "cleanup"]
     ELSE /\ xpc' = [xpc EXCEPT ![r] = "error"]
          /\ UNCHANGED <<deck, scratch>>
  /\ UNCHANGED <<archive, slug, scratchOf, seen, discardErr>>
  /\ UNCHANGED <<cvars, mvars, fvars>>

\* the call returning without the removal of lines 60-71
CleanupSkipped(r) ==
  /\ xpc[r] = "cleanup"
  /\ xpc' = [xpc EXCEPT ![r] = "done"]
  /\ UNCHANGED <<archive, slug, scratchOf, deck, scratch, seen, discardErr>>
  /\ UNCHANGED <<cvars, mvars, fvars>>

\* lines 60-71: every remaining entry removed, then the directory itself
Cleanup(r) ==
  /\ xpc[r] = "cleanup"
  /\ scratch' = [scratch EXCEPT ![scratchOf[r]] = NoScratch]
  /\ xpc' = [xpc EXCEPT ![r] = "done"]
  /\ UNCHANGED <<archive, slug, scratchOf, deck, seen, discardErr>>
  /\ UNCHANGED <<cvars, mvars, fvars>>

\* lines 60-74: a removal throws part of the way; the catch block swallows
\* the error and whatever was not yet removed stays
CleanupFail(r) ==
  /\ xpc[r] = "cleanup"
  /\ scratch[scratchOf[r]].exists
  /\ \E kept \in SUBSET {e \in ArchiveEntries : scratch[scratchOf[r]].entries[e] # None} :
       scratch' = [scratch EXCEPT ![scratchOf[r]].entries =
                     [e \in ArchiveEntries |->
                        IF e \in kept THEN scratch[scratchOf[r]].entries[e] ELSE None]]
  /\ discardErr' = [discardErr EXCEPT ![r] = TRUE]
  /\ xpc' = [xpc EXCEPT ![r] = "done"]
  /\ UNCHANGED <<archive, slug, scratchOf, deck, seen>>
  /\ UNCHANGED <<cvars, mvars, fvars>>

ExtractStep(r) ==
  \/ Check(r)
  \/ Extract(r)
  \/ Mkdir(r)
  \/ ExistsIndex(r)
  \/ MvIndex(r)
  \/ ExistsLib(r)
  \/ MvLib(r)
  \/ Cleanup(r)
  \/ CleanupFail(r)

\* two runs of the script, each inside its call of extractTemplate
InitExtract ==
  /\ archive \in SUBSET ArchiveEntries
  /\ slug \in [Runs -> Slugs]
  /\ xpc = [r \in Runs |-> "check"]
  /\ scratchOf = [r \in Runs |-> NoTime]
  /\ deck = [s \in Slugs |-> NoDeck]
  /\ scratch = [t \in Times |-> NoScratch]
  /\ seen = [r \in Runs |-> NoSeen]
  /\ discardErr = [r \in Runs |-> FALSE]
  /\ pcM = "extract"
  /\ IdleMain
  /\ IdleCompile
  /\ IdleFinalize

NextExtract == \E r \in Runs : ExtractStep(r)

SpecExtract == InitExtract /\ [][NextExtract]_vars

(***************************************************************************)
(* main() of create-presentation.js: one run of the script, from the       *)
(* command line to the written markup.  The run is run 1 of the            *)
(* extractTemplate model; run 2 stands for an earlier, finished run.       *)
(***************************************************************************)
Ones(n) == [i \in 1..n |-> Num(1)]

\* lines 179-207: parseArgs
ParseArgs ==
  /\ pcM = "parse"
  /\ optSlides' = IF argSlides.given THEN ParseInt(argSlides.v) ELSE NullItem
  /\ structureSet' = argStructure.given
  /\ structure' = IF argStructure.given
                  THEN [i \in DOMAIN argStructure.v |-> ParseToken(argStructure.v[i])]
                  ELSE << >>
  /\ pcM' = "validate"
  /\ UNCHANGED <<slides, slideCount, firstSlides, renders,
               optTitle, cfg, firstCfg, prevCfg, lastPath>>
  /\ UNCHANGED <<argSlides, argStructure, zipExists, outDirExists, outDirMade>>
  /\ UNCHANGED <<xvars, fvars>>

\* lines 238-265: the option checks; process.exit(1) on a bad option
Validate ==
  /\ pcM = "validate"
  /\ IF optSlides # NullItem /\ structureSet
     THEN pcM' = "exit1" /\ UNCHANGED <<structure, structureSet>>
     ELSE IF optSlides = NullItem /\ ~structureSet
     THEN /\ structure' = Ones(5)
          /\ structureSet' = TRUE
          /\ pcM' = "zipcheck"
     ELSE IF optSlides # NullItem
     THEN IF BadSlides(optSlides)
          THEN pcM' = "exit1" /\ UNCHANGED <<structure, structureSet>>
          ELSE /\ structure' = Ones(optSlides.n)
               /\ structureSet' = TRUE
               /\ pcM' = "zipcheck"
     ELSE /\ pcM' = IF \E i \in DOMAIN structure : BadItem(structure[i])
                    THEN "exit1" ELSE "zipcheck"
          /\ UNCHANGED <<structure, structureSet>>
  /\ UNCHANGED <<slides, slideCount, firstSlides, renders,
               optTitle, cfg, firstCfg, prevCfg, lastPath>>
  /\ UNCHANGED <<argSlides, argStructure, optSlides, zipExists, outDirExists, outDirMade>>
  /\ UNCHANGED <<xvars, fvars>>

\* lines 267-271
ZipCheck ==
  /\ pcM = "zipcheck"
  /\ pcM' = IF zipExists THEN "mkout" ELSE "exit1"
  /\ UNCHANGED cvars
  /\ UNCHANGED <<argSlides, argStructure, optSlides, structureSet, zipExists, outDirExists, outDirMade>>
  /\ UNCHANGED <<xvars, fvars>>

\* lines 273-281: create the output directory, call extractTemplate
MkOut ==
  /\ pcM = "mkout"
  /\ outDirExists' = TRUE
  /\ outDirMade' = ~outDirExists
  /\ pcM' = "extract"
  /\ xpc' = [xpc EXCEPT ![1] = "check"]
  /\ UNCHANGED cvars
  /\ UNCHANGED <<argSlides, argStructure, optSlides, structureSet, zipExists>>
  /\ UNCHANGED <<archive, slug, scratchOf, deck, scratch, seen, discardErr>>
  /\ UNCHANGED fvars

\* lines 282-295: read index.html, cleanTemplateHTML, write it back;
\* readFileSync throws when the archive had no index.html
MainCustomize ==
  /\ pcM = "extract"
  /\ xpc[1] = "done"
  /\ IF deck[slug[1]].index = None
     THEN /\ pcM' = "exit1"
          /\ UNCHANGED <<cvars, deck>>
     ELSE /\ CustomizeBody
          /\ deck' = [deck EXCEPT ![slug[1]].index.custom = TRUE]
          /\ pcM' = "done"
  /\ UNCHANGED <<argSlides, argStructure, optSlides, structureSet, zipExists, outDirExists, outDirMade>>
  /\ UNCHANGED <<archive, slug, xpc, scratchOf, scratch, seen, discardErr>>
  /\ UNCHANGED fvars

\* lines 297-300: an error thrown by extractTemplate ends the run
MainCatch ==
  /\ pcM = "extract"
  /\ xpc[1] \in {"conflict", "error"}
  /\ pcM' = "exit1"
  /\ UNCHANGED cvars
  /\ UNCHANGED <<argSlides, argStructure, optSlides, structureSet, zipExists, outDirExists, outDirMade>>
  /\ UNCHANGED <<xvars, fvars>>

\* a deck left by an earlier run of the script
OldDeck == [exists |-> TRUE, index |-> [by |-> 2, custom |-> TRUE], lib |-> From(2)]

InitMain ==
  /\ argSlides \in SlidesArgs
  /\ argStructure \in {Absent} \cup {Given(l) : l \in TokenLists}
  /\ optSlides = NullItem
  /\ structureSet = FALSE
  /\ pcM = "parse"
  /\ zipExists \in BOOLEAN
  /\ outDirExists \in BOOLEAN
  /\ outDirMade = FALSE
  /\ IdleCompile
  /\ archive = Template
  /\ slug = [r \in Runs |-> "a"]
  /\ xpc = [r \in Runs |-> "idle"]
  /\ scratchOf = [r \in Runs |-> NoTime]
  /\ deck \in {[s \in Slugs |-> NoDeck]}
               \cup (IF outDirExists THEN {[s \in Slugs |-> IF s = "a" THEN OldDeck ELSE NoDeck]}
                     ELSE {})
  /\ scratch = [t \in Times |-> NoScratch]
  /\ seen = [r \in Runs |-> NoSeen]
  /\ discardErr = [r \in Runs |-> FALSE]
  /\ IdleFinalize

NextMain ==
  \/ ParseArgs
  \/ Validate
  \/ ZipCheck
  \/ MkOut
  \/ (pcM = "extract" /\ ExtractStep(1))
  \/ MainCustomize
  \/ MainCatch

SpecMain == InitMain /\ [][NextMain]_vars

(***************************************************************************)
(* Claims about the command line.                                          *)
(***************************************************************************)
\* a positive integer written in decimal digits and nothing else
IsPositiveIntegerToken(tok) ==
  /\ tok # << >>
  /\ \A i \in DOMAIN tok : tok[i] \in DigitChars
  /\ \E i \in DOMAIN tok : tok[i] # "0"

IsValidToken(tok) == tok = <<"d">> \/ IsPositiveIntegerToken(tok)

Accepted == pcM \notin {"parse", "validate", "exit1"}

\* C10: with an explicit --structure argument, the run gets past the option
\* checks only when every token is 'd' or a positive integer; any other
\* token (zero, negative, empty, or text that is not wholly a number) ends
\* the run with exit code 1 before a slide is generated.
C10_OnlyValidTokensAccepted ==
  /\ (argStructure.given /\ Accepted) =>
       \A i \in DOMAIN argStructure.v : IsValidToken(argStructure.v[i])
  /\ pcM = "exit1" => renders = 0

\* the accepted token that is not wholly a number: "3x" is read as 3 and a
\* stack of three slides is generated from it
C10_TrailingTextAccepted ==
  /\ argStructure = Given(<< <<"3", "x">> >>)
  /\ pcM = "done"
  /\ structure = << Num(3) >>
  /\ slideCount = 3

\* the four configuration errors, read off the command line and the disk
BothGiven == argSlides.given /\ argStructure.given
InvalidSlides == argSlides.given /\ ~IsPositiveIntegerToken(argSlides.v)
InvalidStructure ==
  argStructure.given /\ \E i \in DOMAIN argStructure.v : ~IsValidToken(argStructure.v[i])
ConfigError == BothGiven \/ InvalidSlides \/ InvalidStructure \/ ~zipExists

\* nothing on disk comes from this run: no output directory, no scratch
\* directory, no deck directory
NothingCreated ==
  /\ ~outDirMade
  /\ scratchOf[1] = NoTime
  /\ \A t \in Times : scratch[t] = NoScratch
  /\ \A s \in Slugs : deck[s] \in {NoDeck, OldDeck}

\* C11: every configuration error (both --slides and --structure, an
\* invalid slide count, an invalid structure token, no template archive)
\* ends the run with exit code 1, and at that moment the run has created no
\* output directory, no scratch directory and no deck directory.
C11_ConfigErrorsAbortEarly ==
  ConfigError =>
    /\ pcM \in {"parse", "validate", "zipcheck", "exit1"}
    /\ pcM = "exit1" => NothingCreated

\* what does hold: a run that ends before it calls extractTemplate has
\* created nothing
C11_EarlyExitCreatesNothing ==
  (pcM = "exit1" /\ xpc[1] = "idle") => NothingCreated

\* the accepted invalid token: "3x" passes the checks and the run goes on to
\* create the output directory
C11_InvalidTokenMutates ==
  /\ argStructure = Given(<< <<"3", "x">> >>)
  /\ ConfigError
  /\ outDirMade
  /\ pcM = "done"

(***************************************************************************)
(* Claims about extractTemplate.                                           *)
(***************************************************************************)
PastCheck(r) == xpc[r] \notin {"idle", "check", "conflict"}
Ended(r) == xpc[r] \in {"done", "conflict", "error"}

\* C2: a call of extractTemplate made after an earlier call with the same
\* slug and output directory has returned fails with the "already exists"
\* error, creates no scratch directory, and leaves every deck directory, the
\* first call's index.html and lib included, as it was at the call.
C2_SecondCallConflicts ==
  \A r \in Runs :
    (seen[r].after /\ xpc[r] # "check") =>
      /\ xpc[r] = "conflict"
      /\ deck = seen[r].deck
      /\ scratchOf[r] = NoTime

C2_Witness ==
  \E r \in Runs :
    /\ seen[r].after
    /\ xpc[r] = "conflict"
    /\ deck[slug[r]].index = From(Other(r))
    /\ deck[slug[r]].lib = From(Other(r))

\* C3: of two interleaved runs with the same slug and output directory,
\* never both get past the existence check, and when both have ended exactly
\* one has succeeded and the other has failed with the conflict error.
C3_ExactlyOneWins ==
  \A r \in Runs :
    slug[r] = slug[Other(r)] =>
      /\ ~(PastCheck(r) /\ PastCheck(Other(r)))
      /\ (Ended(r) /\ Ended(Other(r))) =>
           {xpc[r], xpc[Other(r)]} = {"done", "conflict"}

\* what the race can leave behind: a run has failed with an error that is
\* not the conflict error, and the deck directory holds one run's index.html
\* next to the other run's lib
C3_MixedDeck ==
  \E r \in Runs :
    /\ slug[r] = slug[Other(r)]
    /\ xpc[r] = "error"
    /\ xpc[Other(r)] = "done"
    /\ deck[slug[r]].index = From(r)
    /\ deck[slug[r]].lib = From(Other(r))

(***************************************************************************)
(* Claims about the structure-to-markup compiler.                          *)
(***************************************************************************)
HasStack == \E i \in DOMAIN structure : structure[i].k = "int" /\ structure[i].n > 1
HasDivider == \E i \in DOMAIN structure : structure[i] = D

\* C1: for every valid LayoutDescriptor the slide count written to the
\* config (1 per divider, 1 per single, n per stack of n) equals the number
\* of leaf sections (sections without a nested section) in the markup that
\* generateSlides emitted.
C1_SlideCountIsLeafCount ==
  renders > 0 => slideCount = LeafCount(slides)

C1_Witness ==
  /\ renders > 0
  /\ HasStack /\ HasDivider
  /\ slideCount = LeafCount(slides)
  /\ slideCount > Len(structure)

TitleSlides(s) == {i \in DOMAIN s : s[i].t = "open" /\ s[i].id = TitleId}

\* C8: when the first element of the descriptor is Single, the first slide
\* emitted is the title slide (id "title", divider styling) and it is the
\* only slide with the title identity; when the first element is not
\* Single, no title slide is emitted at all.
C8_TitleOnlyFirstSingle ==
  renders > 0 =>
    IF structure[1] = Num(1)
    THEN IsTitleStyled(slides[1]) /\ TitleSlides(slides) = {1}
    ELSE TitleSlides(slides) = {}

C8_Witness ==
  /\ renders > 0
  /\ Len(structure) >= 3
  /\ structure[1] = Num(1)
  /\ structure[3] = Num(1)
  /\ TitleSlides(slides) = {1}

C8_WitnessNoTitle ==
  /\ renders > 0
  /\ structure[1] = D
  /\ \E i \in DOMAIN structure : structure[i] = Num(1)
  /\ TitleSlides(slides) = {}

IdPositions(s) == {i \in DOMAIN s : s[i].t = "open" /\ s[i].id # NoId}

\* C9: the identifiers assigned by generateSlides (title, slide-<h>,
\* slide-<h>-<v>, divider-<k>) are pairwise distinct within one rendered
\* deck, and a second rendering of the same descriptor yields the same
\* identifiers at the same places.
C9_IdsUniqueAndStable ==
  /\ \A i, j \in IdPositions(slides) : i # j => slides[i].id # slides[j].id
  /\ renders >= 2 => slides = firstSlides

C9_Witness ==
  /\ renders >= 2
  /\ HasStack /\ HasDivider
  /\ structure[1] = Num(1)
  /\ Cardinality(IdPositions(slides)) >= 4
  /\ slides = firstSlides

(***************************************************************************)
(* finalize.js, one action per step or per file-system call that can       *)
(* throw.  The script has no try/catch: an exception thrown by a call ends  *)
(* the process.                                                            *)
(***************************************************************************)
Snapshot == [loose |-> loose, canon |-> canon, html |-> html]

\* lines 18-31: index.html must exist, else process.exit(1)
PreCheck ==
  /\ pcF = "start"
  /\ pcF' = IF html.exists THEN "assets" ELSE "exit1"
  /\ UNCHANGED <<run, diskvars, cssFiles, customCss, rmIdx, artIdx, report, fault, start0>>
  /\ UNCHANGED <<cvars, mvars, xvars>>

\* lines 33-40: step 1
AssetsStep ==
  /\ pcF = "assets"
  /\ IF assets = "absent"
     THEN assets' = "dir" /\ report' = report \cup {"created-assets"}
     ELSE assets' = assets /\ report' = report \cup {"assets-exist"}
  /\ pcF' = "css"
  /\ UNCHANGED <<run, canon, loose, html, arts, cssFiles, customCss, rmIdx, artIdx, fault, start0>>
  /\ UNCHANGED <<cvars, mvars, xvars>>

\* line 44: fs.existsSync(mainCssPath)
CanonFoundAlways == TRUE
CanonFound == canon.exists

\* line 56: entry.endsWith('.css') && entry !== 'offline-v2.css'
IsCustomCss(n) == n \in LooseNames /\ n # "offline-v2.css"

Found == {n \in LooseNames : loose[n] # Missing /\ IsCustomCss(n)}

\* lines 43-62 and 83-85: step 2 up to the decision whether to merge; the
\* order of readdirSync is the platform's
CssScan ==
  /\ pcF = "css"
  /\ IF ~CanonFound
     THEN /\ report' = report \cup {"css-skipped-warning"}
          /\ pcF' = "html"
          /\ UNCHANGED cssFiles
     ELSE \E order \in Perms(Found) :
            /\ cssFiles' = order
            /\ IF order = << >>
               THEN report' = report \cup {"css-none"} /\ pcF' = "html"
               ELSE report' = report /\ pcF' = "cssRead"
  /\ UNCHANGED <<run, diskvars, customCss, rmIdx, artIdx, fault, start0>>
  /\ UNCHANGED <<cvars, mvars, xvars>>

\* lines 64-71: customCss built from the files in cssFiles order
RECURSIVE BuildCustomCss(_, _, _)
BuildCustomCss(files, i, acc) ==
  IF i > Len(files) THEN acc
  ELSE BuildCustomCss(files, i + 1, acc \o << Origin(files[i]), Body(loose[files[i]]) >>)

\* lines 64-74: read every loose file, then the canonical stylesheet;
\* readFileSync throws when the file is not there
CssRead ==
  /\ pcF = "cssRead"
  /\ IF canon.exists
     THEN /\ customCss' = BuildCustomCss(cssFiles, 1, << Banner >>)
          /\ pcF' = "cssWrite"
     ELSE /\ customCss' = customCss
          /\ pcF' = "crashed"
  /\ UNCHANGED <<run, diskvars, cssFiles, rmIdx, artIdx, report, fault, start0>>
  /\ UNCHANGED <<cvars, mvars, xvars>>

\* lines 75-76: the one write, mainCss + customCss
CssWriteReplaces ==
  /\ pcF = "cssWrite"
  /\ canon' = [exists |-> TRUE, content |-> customCss]
  /\ report' = report \cup {"css-integrated"}
  /\ rmIdx' = 1
  /\ pcF' = "cssUnlink"
  /\ UNCHANGED <<run, assets, loose, html, arts, cssFiles, customCss, artIdx, fault, start0>>
  /\ UNCHANGED <<cvars, mvars, xvars>>
CssWrite ==
  /\ pcF = "cssWrite"
  /\ canon' = [exists |-> TRUE, content |-> canon.content \o customCss]
  /\ report' = report \cup {"css-integrated"}
  /\ rmIdx' = 1
  /\ pcF' = "cssUnlink"
  /\ UNCHANGED <<run, assets, loose, html, arts, cssFiles, customCss, artIdx, fault, start0>>
  /\ UNCHANGED <<cvars, mvars, xvars>>

\* lines 79-82: one fs.unlinkSync per step
CssUnlink ==
  /\ pcF = "cssUnlink"
  /\ rmIdx <= Len(cssFiles)
  /\ loose' = [loose EXCEPT ![cssFiles[rmIdx]] = Missing]
  /\ rmIdx' = rmIdx + 1
  /\ pcF' = IF rmIdx = Len(cssFiles) THEN "html" ELSE "cssUnlink"
  /\ UNCHANGED <<run, assets, canon, html, arts, cssFiles, customCss, artIdx, report, fault, start0>>
  /\ UNCHANGED <<cvars, mvars, xvars>>

\* line 93: the pattern <link[^>]*href="[^"]*\.css"[^>]*> needs the href in
\* double quotes
Matches(l) == l.quote = "dq"
\* line 94: match.includes('lib/offline-v2.css')
MentionsCanon(l) == l.href \in {CanonHref, "vendor/lib/offline-v2.css"}

Kept(l) == ~Matches(l) \/ MentionsCanon(l)
\* lines 93-98
StripLinks(links) == SelectSeq(links, Kept)

\* line 100: html !== originalHtml
HtmlChangedAlways(new, old) == TRUE
HtmlChanged(new, old) == new # old

\* lines 88-105: step 3
HtmlStep ==
  /\ pcF = "html"
  /\ IF HtmlChanged(StripLinks(html.links), html.links)
     THEN /\ html' = [html EXCEPT !.links = StripLinks(html.links), !.writes = html.writes + 1]
          /\ report' = report \cup {"html-updated"}
     ELSE /\ html' = html
          /\ report' = report \cup {"html-clean"}
  /\ artIdx' = 1
  /\ pcF' = "artifacts"
  /\ UNCHANGED <<run, assets, canon, loose, arts, cssFiles, customCss, rmIdx, fault, start0>>
  /\ UNCHANGED <<cvars, mvars, xvars>>

RemovedMsg(a) == IF a = "screenshots" THEN "removed-screenshots" ELSE "removed-output.pdf"

\* lines 111-125: one artifact per step, rmSync for a directory, unlinkSync
\* for a file
ArtifactStepWide ==
  /\ pcF = "artifacts"
  /\ artIdx <= Len(artifacts)
  /\ IF arts[artifacts[artIdx]] # "absent"
     THEN /\ arts' = [arts EXCEPT ![artifacts[artIdx]] = "absent"]
          /\ report' = report \cup {RemovedMsg(artifacts[artIdx])}
     ELSE /\ arts' = arts
          /\ report' = report
  /\ assets' = "absent"
  /\ artIdx' = artIdx + 1
  /\ UNCHANGED <<pcF, run, canon, loose, html, cssFiles, customCss, rmIdx, fault, start0>>
  /\ UNCHANGED <<cvars, mvars, xvars>>
ArtifactStep ==
  /\ pcF = "artifacts"
  /\ artIdx <= Len(artifacts)
  /\ IF arts[artifacts[artIdx]] # "absent"
     THEN /\ arts' = [arts EXCEPT ![artifacts[artIdx]] = "absent"]
          /\ report' = report \cup {RemovedMsg(artifacts[artIdx])}
     ELSE /\ arts' = arts
          /\ report' = report
  /\ artIdx' = artIdx + 1
  /\ UNCHANGED <<pcF, run, assets, canon, loose, html, cssFiles, customCss, rmIdx, fault, start0>>
  /\ UNCHANGED <<cvars, mvars, xvars>>

\* lines 127-134: end of step 4 and of the script
FinishRun ==
  /\ pcF = "artifacts"
  /\ artIdx > Len(artifacts)
  /\ report' = report
                 \cup (IF \E a \in ArtifactNames : RemovedMsg(a) \in report
                       THEN {} ELSE {"artifacts-none"})
                 \cup {"finalized"}
  /\ pcF' = "done"
  /\ UNCHANGED <<run, diskvars, cssFiles, customCss, rmIdx, artIdx, fault, start0>>
  /\ UNCHANGED <<cvars, mvars, xvars>>

\* the file-system call the script is about to make, and which can throw
AtFsCall ==
  \/ pcF = "assets" /\ assets = "absent"
  \/ pcF = "css" /\ canon.exists
  \/ pcF \in {"cssRead", "cssWrite", "cssUnlink", "html"}
  \/ pcF = "artifacts" /\ artIdx <= Len(artifacts) /\ arts[artifacts[artIdx]] # "absent"

\* an I/O error (EACCES, EIO, ...) thrown by that call: uncaught, the
\* process ends there
IoFault ==
  /\ AtFsCall
  /\ fault' = TRUE
  /\ pcF' = "crashed"
  /\ UNCHANGED <<run, diskvars, cssFiles, customCss, rmIdx, artIdx, report, start0>>
  /\ UNCHANGED <<cvars, mvars, xvars>>

\* the script is run again on the deck after a successful run
Rerun ==
  /\ pcF = "done"
  /\ run < MaxRuns
  /\ run' = run + 1
  /\ pcF' = "start"
  /\ cssFiles' = << >>
  /\ customCss' = << >>
  /\ rmIdx' = 0
  /\ artIdx' = 0
  /\ report' = {}
  /\ start0' = Snapshot
  /\ UNCHANGED <<diskvars, fault>>
  /\ UNCHANGED <<cvars, mvars, xvars>>

InitFinalize ==
  /\ pcF = "start"
  /\ run = 1
  /\ assets \in {"absent", "dir"}
  /\ canon \in {NoCanon, TemplateCanon}
  /\ loose \in {f \in [LooseNames -> {Missing} \cup {LooseContent(n) : n \in LooseNames}] :
                  \A n \in LooseNames : f[n] \in {Missing, LooseContent(n)}}
  /\ html \in {NoHtml} \cup
              {[exists |-> TRUE, links |-> << TemplateLink >> \o extra, writes |-> 0] :
                 extra \in SeqsUpTo(ExtraLinks, MaxLinks)}
  /\ arts \in [ArtifactNames -> Kinds]
  /\ cssFiles = << >>
  /\ customCss = << >>
  /\ rmIdx = 0
  /\ artIdx = 0
  /\ report = {}
  /\ fault = FALSE
  /\ start0 = [loose |-> loose, canon |-> canon, html |-> html]
  /\ pcM = "idle"
  /\ IdleMain
  /\ IdleCompile
  /\ IdleExtract

NextFinalize ==
  \/ PreCheck
  \/ AssetsStep
  \/ CssScan
  \/ CssRead
  \/ CssWrite
  \/ CssUnlink
  \/ HtmlStep
  \/ ArtifactStep
  \/ FinishRun
  \/ IoFault
  \/ Rerun

SpecFinalize == InitFinalize /\ [][NextFinalize]_vars

(***************************************************************************)
(* Claims about finalize.js.                                               *)
(***************************************************************************)
Step1Outcomes == {"created-assets", "assets-exist"}
Step2Outcomes == {"css-skipped-warning", "css-none", "css-integrated"}
Step3Outcomes == {"html-updated", "html-clean"}
Step4Outcomes == {"artifacts-none", "removed-screenshots", "removed-output.pdf"}
StepOutcomes == << Step1Outcomes, Step2Outcomes, Step3Outcomes, Step4Outcomes >>

Reported(k) == report \cap StepOutcomes[k] # {}

\* the content of loose file n stands in the canonical stylesheet, right
\* after the comment that names n
MergedIn(n, c) ==
  \E i \in 1..(Len(canon.content) - 1) :
    canon.content[i] = Origin(n) /\ canon.content[i + 1] = Body(c)

\* C4: after a successful run on a deck that has lib/offline-v2.css, no
\* loose stylesheet is left in the deck root, the canonical stylesheet holds
\* the content of every formerly loose stylesheet after a comment naming the
\* file, and index.html has exactly one stylesheet link, the one to
\* lib/offline-v2.css.  (Loose stylesheet: a root *.css file other than one
\* named offline-v2.css.)
C4_OneLinkNoLooseFiles ==
  (pcF = "done" /\ start0.canon.exists) =>
    /\ \A n \in LooseNames : IsCustomCss(n) => loose[n] = Missing
    /\ \A n \in LooseNames :
         (IsCustomCss(n) /\ start0.loose[n] # Missing) => MergedIn(n, start0.loose[n])
    /\ Len(html.links) = 1
    /\ html.links[1].href = CanonHref

\* the dangling reference: a.css has been merged and deleted, and the
\* single-quoted link to it is still in index.html
C4_DanglingLink ==
  /\ pcF = "done"
  /\ start0.loose["a.css"] # Missing
  /\ loose["a.css"] = Missing
  /\ MergedIn("a.css", start0.loose["a.css"])
  /\ \E i \in DOMAIN html.links : html.links[i] = Link("a.css", "sq")

\* C5: in a run of finalize.js that follows a successful run on the same
\* deck, no step changes the deck (assets, canonical stylesheet, loose
\* files, index.html and its write count, artifacts) and no step fails,
\* I/O errors of the file system aside.
C5_SecondRunNoOp ==
  [][(run >= 2 /\ ~fault') =>
       (diskvars' = diskvars /\ pcF' \notin {"crashed", "exit1"})]_vars

C5_Witness ==
  /\ run = 2
  /\ pcF = "done"
  /\ ~fault
  /\ html.writes = 1
  /\ Len(canon.content) > 1
  /\ assets = "dir"
  /\ {"assets-exist", "css-none", "html-clean", "artifacts-none"} \subseteq report

\* C6: a failure in one of the four steps does not keep the later steps
\* from running: when the run has ended, every step after the first one
\* that reported no outcome has reported its outcome.
C6_FailureIsolated ==
  pcF \in {"done", "crashed"} =>
    \A j, k \in 1..4 : (j < k /\ ~Reported(j)) => Reported(k)

\* C7: on a deck without lib/offline-v2.css the merge step is skipped with a
\* warning: no loose stylesheet is deleted, no canonical stylesheet is
\* created, the merge is never entered, the run does not fail of its own,
\* and a run that ends has reported steps 3 and 4.
C7_MissingCanonSkipsMerge ==
  (pcF # "idle" /\ ~start0.canon.exists) =>
    /\ loose = start0.loose
    /\ canon = NoCanon
    /\ pcF \notin {"cssRead", "cssWrite", "cssUnlink"}
    /\ Reported(2) => "css-skipped-warning" \in report
    /\ pcF = "crashed" => fault
    /\ pcF = "done" => (Reported(2) /\ Reported(3) /\ Reported(4))

C7_Witness ==
  /\ pcF = "done"
  /\ ~start0.canon.exists
  /\ loose["a.css"] # Missing
  /\ canon = NoCanon
  /\ {"css-skipped-warning", "html-updated", "removed-screenshots"} \subseteq report


(***************************************************************************)
(* Claims about the embedded configuration (SpecCustomize).                *)
(***************************************************************************)
HasDollarPair(t) == \E i \in 1..(Len(t) - 1) : t[i] = "$" /\ t[i + 1] = "$"

\* the slug and title fields of the configuration say the given slug and title
FieldsReflectOptions ==
  /\ Unescape(cfg.slug) = DeckSlug
  /\ Unescape(cfg.title) = optTitle

\* C12: a second cleanTemplateHTML with the same title, slug and structure on
\* the markup of the first leaves the slug and title fields of the embedded
\* configuration as the first run wrote them, and they say the given slug
\* and title.
C12_SecondRunStableAndCorrect ==
  renders = 2 =>
    /\ cfg.slug = firstCfg.slug
    /\ cfg.title = firstCfg.title
    /\ FieldsReflectOptions

\* the stability half on its own: the two fields do not change in the second run
C12_FieldsStable ==
  renders = 2 => (cfg.slug = firstCfg.slug /\ cfg.title = firstCfg.title)

\* both halves for a parsable template and a title without "$$"
C12_HoldsWithoutDollarPair ==
  (renders = 2 /\ prevCfg.cfg.found /\ prevCfg.cfg.strict /\ ~HasDollarPair(optTitle)) =>
    (cfg = firstCfg /\ FieldsReflectOptions)

\* two runs on a parsable template with the title $$: the field is stable
\* and says $
C12_StableButWrong ==
  /\ renders = 2
  /\ lastPath = "parsed"
  /\ optTitle = << "$", "$" >>
  /\ cfg = firstCfg
  /\ Unescape(cfg.title) = << "$" >>

\* C13: when the located payload is not parsable as JSON, cleanTemplateHTML
\* completes, the slug and title fields of the script text say the given
\* slug and title, and the slide count field keeps its previous value.
C13_FallbackReplacesSlugAndTitle ==
  lastPath = "fallback" =>
    /\ FieldsReflectOptions
    /\ slideCount = prevCfg.count

\* what the fallback does do: it completes and leaves the slide count alone
C13_FallbackKeepsCount ==
  lastPath = "fallback" => (renders > 0 /\ slideCount = prevCfg.count)

\* ... and it sets both fields when they are written "key":"value" without
\* white space and the title holds no "$$"
C13_HoldsForCompactText ==
  (lastPath = "fallback" /\ prevCfg.cfg.compact /\ ~HasDollarPair(optTitle)) =>
    FieldsReflectOptions

\* a payload written with white space after the colons: nothing is replaced
C13_PrettyTextUntouched ==
  /\ lastPath = "fallback"
  /\ renders = 1
  /\ ~prevCfg.cfg.compact
  /\ cfg = prevCfg.cfg
  /\ Unescape(cfg.slug) # DeckSlug
  /\ Unescape(cfg.title) # optTitle

\* C17: when the payload parses, the configuration written by
\* cleanTemplateHTML has slug deck-<slug>, the given title, and a slide count
\* equal to the structural sum, whatever the three fields held before.
C17_ParsedConfigUpdated ==
  lastPath = "parsed" =>
    /\ FieldsReflectOptions
    /\ slideCount = SlideCountOf(structure)

\* slug and slide count are set as claimed, for every title
C17_SlugAndCountUpdated ==
  lastPath = "parsed" =>
    /\ Unescape(cfg.slug) = DeckSlug
    /\ slideCount = SlideCountOf(structure)

\* ... and the title as well unless it holds "$$"
C17_HoldsWithoutDollarPair ==
  (lastPath = "parsed" /\ ~HasDollarPair(optTitle)) => FieldsReflectOptions

\* the title $$ is written as $
C17_DollarPairCollapsed ==
  /\ lastPath = "parsed"
  /\ renders = 1
  /\ optTitle = << "$", "$" >>
  /\ Unescape(cfg.title) = << "$" >>
  /\ prevCfg.count = 7
  /\ slideCount = SlideCountOf(structure)


(***************************************************************************)
(* Claims about what extractTemplate keeps and discards (SpecExtract).     *)
(***************************************************************************)
\* run r has returned the deck path and the other run has not begun
ReturnedAlone(r) == xpc[r] = "done" /\ xpc[Other(r)] = "check"

\* the deck of run r holds exactly the whitelisted entries of the archive
DeckIsWhitelist(r) ==
  /\ deck[slug[r]].exists
  /\ deck[slug[r]].index = (IF IndexEntry \in archive THEN From(r) ELSE None)
  /\ deck[slug[r]].lib = (IF LibEntry \in archive THEN From(r) ELSE None)

\* C14: when extractTemplate has returned the deck path, for any set of
\* top-level entries in the archive, the deck holds index.html and lib
\* exactly if the archive had them and nothing else, every other extracted
\* entry is gone together with the scratch directory unless their removal
\* threw, and a removal that throws does not keep the call from returning.
C14_OnlyWhitelistKept ==
  \A r \in Runs :
    ReturnedAlone(r) =>
      /\ DeckIsWhitelist(r)
      /\ scratch[scratchOf[r]].entries[IndexEntry] = None
      /\ scratch[scratchOf[r]].entries[LibEntry] = None
      /\ ~discardErr[r] => scratch[scratchOf[r]] = NoScratch

\* an archive with both whitelisted entries and two others: all four
\* extracted, two kept in the deck, the others and the scratch directory gone
C14_Witness ==
  /\ archive = ArchiveEntries
  /\ ReturnedAlone(1)
  /\ ~discardErr[1]
  /\ DeckIsWhitelist(1)
  /\ scratch[scratchOf[1]] = NoScratch

\* the removal threw, an entry is left behind, the call has returned
C14_WitnessSwallowed ==
  /\ archive = ArchiveEntries
  /\ ReturnedAlone(1)
  /\ discardErr[1]
  /\ DeckIsWhitelist(1)
  /\ scratch[scratchOf[1]].entries["README.md"] # None


(***************************************************************************)
(* Claims about the elements generateSlides emits (SpecCompile).           *)
(***************************************************************************)
\* a divider element: a section-break slide with a section number,
\* <section id="divider-k" class="section-divider">
IsDividerElement(l) ==
  /\ l.t = "open"
  /\ l.cls = "section-divider"
  /\ Len(l.id) >= 2
  /\ l.id[1] = "divider-"

DividerElements(s) == {i \in DOMAIN s : IsDividerElement(s[i])}
DividerTokens(str) == {i \in DOMAIN str : str[i] = D}

\* a vertical container: a section with sections nested in it
Containers(s) == {i \in DOMAIN s : s[i].t = "open" /\ ~IsLeaf(s, i)}

\* the closing tag of the container opened at i: the first closing tag
\* after i that follows a closing tag
ContainerClose(s, i) ==
  LET cs == {j \in DOMAIN s : j > i + 1 /\ s[j].t = "close" /\ s[j - 1].t = "close"}
  IN  IF cs = {} THEN Len(s) + 1 ELSE CHOOSE j \in cs : \A m \in cs : j <= m

InnerCount(s, i) == Cardinality({k \in Leaves(s) : i < k /\ k < ContainerClose(s, i)})

\* the Stack(n) tokens: integers above 1 (an integer 1 is a Single)
StackTokens(str) == {i \in DOMAIN str : str[i] # D /\ str[i].n > 1}

\* the m-th container, in document order, holds as many inner slides as
\* the m-th stack token says
ContainersMatchStacks(s, str) ==
  /\ Cardinality(Containers(s)) = Cardinality(StackTokens(str))
  /\ \A c \in Containers(s) : \A p \in StackTokens(str) :
       Cardinality({x \in Containers(s) : x <= c}) =
         Cardinality({q \in StackTokens(str) : q <= p})
       => InnerCount(s, c) = str[p].n

SampleStructure == << Num(1), D, Num(3), Num(1) >>

\* C15: for every valid LayoutDescriptor the rendered markup has exactly as
\* many divider elements as the descriptor has divider tokens, and exactly
\* one vertical container with n inner slides for each Stack(n) token, in
\* order; "1,d,3,1" gives slide count 6, one divider element and one
\* vertical stack of three.
C15_DividersAndStacksMatch ==
  renders > 0 =>
    /\ Cardinality(DividerElements(slides)) = Cardinality(DividerTokens(structure))
    /\ ContainersMatchStacks(slides, structure)
    /\ structure = SampleStructure =>
         /\ slideCount = 6
         /\ Cardinality(DividerElements(slides)) = 1
         /\ Cardinality(Containers(slides)) = 1
         /\ \A c \in Containers(slides) : InnerCount(slides, c) = 3

C15_Witness ==
  /\ renders > 0
  /\ structure = SampleStructure
  /\ slideCount = 6
  /\ Cardinality(DividerElements(slides)) = 1
  /\ \E c \in Containers(slides) : InnerCount(slides, c) = 3


(***************************************************************************)
(* Claims about two runs with distinct slugs (SpecExtract).                *)
(***************************************************************************)
DistinctSlugs == slug[1] # slug[2]

Extracted(r) == scratchOf[r] # NoTime

\* run r is not failed, and once returned its deck is complete
RunUnaffected(r) ==
  /\ xpc[r] \notin {"error", "conflict"}
  /\ xpc[r] = "done" => DeckIsWhitelist(r)

\* C16: two runs with distinct slugs into one output directory share no
\* mutable file-system state under any interleaving: each extracts into a
\* scratch location of its own and each ends with its own complete deck
\* (index.html and lib), unaffected by the other.
C16_RunsShareNothing ==
  DistinctSlugs =>
    /\ (Extracted(1) /\ Extracted(2)) => scratchOf[1] # scratchOf[2]
    /\ \A r \in Runs : RunUnaffected(r)

\* what does hold: runs whose scratch paths differ do not affect each other
C16_HoldsWithDistinctScratch ==
  (DistinctSlugs /\ ((Extracted(1) /\ Extracted(2)) => scratchOf[1] # scratchOf[2])) =>
    \A r \in Runs : RunUnaffected(r)

\* both runs took the same temp-extract-<Date.now()> path: run 1 moved and
\* cleaned up what run 2 had extracted, run 2 returned an empty deck
C16_SharedScratchEmptyDeck ==
  /\ DistinctSlugs
  /\ archive = ArchiveEntries
  /\ scratchOf[1] = scratchOf[2]
  /\ xpc[1] = "done" /\ xpc[2] = "done"
  /\ deck[slug[2]].exists
  /\ deck[slug[2]].index = None
  /\ deck[slug[2]].lib = None

\* ... or run 2 failed in renameSync on an entry run 1 had already moved
C16_SharedScratchRenameFails ==
  /\ DistinctSlugs
  /\ scratchOf[1] = scratchOf[2]
  /\ xpc[1] = "done"
  /\ xpc[2] = "error"


(***************************************************************************)
(* Claims about the order of write and deletions in step 2 (SpecFinalize). *)
(***************************************************************************)
IsPrefix(a, b) == Len(a) <= Len(b) /\ SubSeq(b, 1, Len(a)) = a

\* the loose stylesheets step 2 of this run discovers
Discovered == {n \in LooseNames : IsCustomCss(n) /\ start0.loose[n] # Missing}

\* C19: in step 2 no loose stylesheet is deleted before the one write that
\* appends all discovered loose files to lib/offline-v2.css has completed;
\* at every point of the run, a run ended by a failing call included, the
\* content of each discovered loose stylesheet is in its own file or in the
\* canonical stylesheet, and what the canonical stylesheet held before is a
\* prefix of what it holds.
C19_WriteBeforeDelete ==
  /\ \A n \in LooseNames :
       loose[n] # start0.loose[n] =>
         /\ n \in Discovered
         /\ loose[n] = Missing
         /\ "css-integrated" \in report
         /\ \A m \in Discovered : MergedIn(m, start0.loose[m])
  /\ \A n \in Discovered : loose[n] = start0.loose[n] \/ MergedIn(n, start0.loose[n])
  /\ canon.exists = start0.canon.exists
  /\ IsPrefix(start0.canon.content, canon.content)
  /\ canon # start0.canon => canon.content = start0.canon.content \o customCss

\* the run ended by a failing unlinkSync after the first deletion: one file
\* gone, one still there, both merged, the prior content in front
C19_Witness ==
  /\ pcF = "crashed"
  /\ fault
  /\ Discovered = {"a.css", "b.css"}
  /\ \E n \in Discovered : loose[n] = Missing
  /\ \E n \in Discovered : loose[n] # Missing
  /\ \A n \in Discovered : MergedIn(n, start0.loose[n])
  /\ canon.content # start0.canon.content
  /\ IsPrefix(<< BaseCss >>, canon.content)

\* the run ended by a failing writeFileSync: nothing deleted, nothing merged
C19_WitnessWriteFails ==
  /\ pcF = "crashed"
  /\ fault
  /\ customCss # << >>
  /\ canon = start0.canon
  /\ loose = start0.loose
  /\ Discovered = {"a.css", "b.css"}


(***************************************************************************)
(* Claims about step 4 of finalize.js (SpecFinalize).                      *)
(***************************************************************************)
\* C18: step 4 removes screenshots and output.pdf from the deck root when
\* they are there, a directory as well as a file, and removes or changes
\* nothing else: assets, stylesheets and index.html are as before the step,
\* and an artifact that is absent stays absent.
C18_OnlyArtifactsRemoved ==
  [][pcF = "artifacts" =>
       /\ <<assets, canon, loose, html>>' = <<assets, canon, loose, html>>
       /\ \A a \in ArtifactNames : arts'[a] \in {arts[a], "absent"}
       /\ pcF' = "done" => \A a \in ArtifactNames : arts'[a] = "absent"]_vars

\* step 4 done on a deck that had both artifacts, everything else in place
C18_Witness ==
  /\ pcF = "done"
  /\ run = 1
  /\ {"removed-screenshots", "removed-output.pdf"} \subseteq report
  /\ \A a \in ArtifactNames : arts[a] = "absent"
  /\ assets = "dir"
  /\ canon.exists
  /\ loose["offline-v2.css"] # Missing
  /\ html.exists

\* step 4 done on a deck without artifacts
C18_WitnessNothingToRemove ==
  /\ pcF = "done"
  /\ run = 1
  /\ "artifacts-none" \in report
  /\ \A a \in ArtifactNames : arts[a] = "absent"
  /\ assets = "dir"


====
